------------------------------ MODULE Spec2Model ------------------------------
(***************************************************************************)
(* A model of mindnlp/models/xlm/xlm.py: the mask builder get_masks, head  *)
(* pruning of MultiHeadAttention, apply_chunking_to_forward, and the       *)
(* cached forward pass of XLMModel / MultiHeadAttention.                   *)
(*                                                                         *)
(* Tensors are sequences (1-based); the position t of the source           *)
(* (0-based) is the index t + 1 here.  Each part of the program has its    *)
(* own specification; the variables of the other parts stay idle in it.    *)
(***************************************************************************)
EXTENDS Integers, Sequences, FiniteSets, TLC

VARIABLES
    \* get_masks: the arguments of the call and what it returned
    gm_slen, gm_lengths, gm_causal, gm_padding_mask, gm_caller, gm_ret,
    \* one MultiHeadAttention layer under prune_heads: its fields, and the
    \* arguments and outcome of the last prune_heads call
    n_heads, dim, pruned_heads, q_lin, k_lin, v_lin, out_lin,
    pr_heads, pr_already, pr_status,
    \* apply_chunking_to_forward as TransformerFFN.construct calls it: the
    \* input tensor along the sequence axis, the configured chunk size, the
    \* inputs forward_fn was called with, and the outcome
    ch_input, ch_chunk_size, ch_calls, ch_ret,
    \* XLMModel: its configuration (self.causal, self.n_layers and the
    \* feed-forward chunk size), the token ids and language ids of the
    \* session, the caller's cache and the calls made with it
    cfg_causal, n_layers, chunk_size_feed_forward, ids, langs, cache, hist,
    \* XLMModel.construct in progress: where it is (pc, and layer_i for the
    \* loop variable i), its arguments (call), its locals tensor, mask
    \* (pad_mask) and attn_mask (att_mask), the locals of the last
    \* MultiHeadAttention.construct (attn), and what the last call returned
    \* or raised (ret)
    pc, layer_i, call, tensor, pad_mask, att_mask, attn, ret

gm_vars == <<gm_slen, gm_lengths, gm_causal, gm_padding_mask, gm_caller, gm_ret>>
layer_vars == <<n_heads, dim, pruned_heads, q_lin, k_lin, v_lin, out_lin>>
pr_vars == <<layer_vars, pr_heads, pr_already, pr_status>>

ch_vars == <<ch_input, ch_chunk_size, ch_calls, ch_ret>>

cfg_vars == <<cfg_causal, n_layers, chunk_size_feed_forward, ids, langs>>
run_vars == <<pc, layer_i, call, tensor, pad_mask, att_mask, attn, ret>>
st_vars == <<cfg_vars, cache, hist, run_vars>>

vars == <<gm_vars, pr_vars, ch_vars, st_vars>>

(***************************************************************************)
(* Bounds of the model.                                                    *)
(***************************************************************************)
MaxSlen == 2
MaxBatch == 2
\* the head count and per-head size the attention layer is built with
InitHeads == 4
HeadSize == 2
\* the longest list of heads one prune_heads call is given
MaxReq == 2
\* the longest sequence axis and the largest chunk size of the feed-forward
MaxSeq == 4
MaxChunk == 4
\* the longest input of a forward pass, the deepest stack, and the most
\* forward passes made with one cache
MaxLen == 3
MaxLayers == 2
MaxCalls == 2

None == [tag |-> "None"]
Pending == [tag |-> "pending"]

Max(a, b) == IF a >= b THEN a ELSE b
Min(a, b) == IF a <= b THEN a ELSE b

RECURSIVE SeqMax(_)
SeqMax(s) == IF Len(s) = 1 THEN s[1] ELSE Max(s[1], SeqMax(Tail(s)))

(***************************************************************************)
(* get_masks(slen, lengths, causal, padding_mask=None)                     *)
(***************************************************************************)
\* alen = arange(slen): alen[t + 1] = t
arange(n) == [t \in 1..n |-> t - 1]

\* mask = alen < lengths[:, None]
LengthsMaskLe(slen, lengths) ==
    [b \in 1..Len(lengths) |-> [t \in 1..slen |-> arange(slen)[t] <= lengths[b]]]

LengthsMask(slen, lengths) ==
    [b \in 1..Len(lengths) |-> [t \in 1..slen |-> arange(slen)[t] < lengths[b]]]

\* alen[None, None, :].repeat(bs, slen, 1) <= alen[None, :, None]
TriangularStrict(bs, slen) ==
    [b \in 1..bs |-> [i \in 1..slen |-> [j \in 1..slen |->
        arange(slen)[j] < arange(slen)[i]]]]

Triangular(bs, slen) ==
    [b \in 1..bs |-> [i \in 1..slen |-> [j \in 1..slen |->
        arange(slen)[j] <= arange(slen)[i]]]]

\* the shape of a two-dimensional tensor
Shape2(m) == <<Len(m), IF Len(m) = 0 THEN 0 ELSE Len(m[1])>>

get_masks(slen, lengths, causal, padding_mask) ==
    IF padding_mask = None /\ ~(SeqMax(lengths) <= slen)
    THEN [tag |-> "AssertionError", line |-> 80]
    ELSE
        LET mask == IF padding_mask # None THEN padding_mask.t
                    ELSE LengthsMask(slen, lengths)
            bs == Len(lengths)
            attn_mask == IF causal THEN Triangular(bs, slen) ELSE mask
        IN  IF Shape2(mask) # <<bs, slen>>
            THEN [tag |-> "AssertionError", line |-> 91]
            ELSE [tag |-> "ok", mask |-> mask, attn_mask |-> attn_mask]

\* boolean tensors of shape (bs, w)
BoolMatrices(bs, w) == [1..bs -> [1..w -> BOOLEAN]]

GmInit ==
    /\ gm_slen \in 1..MaxSlen
    /\ \E bs \in 1..MaxBatch : gm_lengths \in [1..bs -> 0..(MaxSlen + 1)]
    /\ gm_causal \in BOOLEAN
    /\ \/ gm_padding_mask = None
       \/ gm_padding_mask \in
            {[tag |-> "Tensor", t |-> m] : m \in BoolMatrices(Len(gm_lengths), gm_slen)}
       \* a padding mask of another width than slen
       \/ \E w \in 1..MaxSlen :
            /\ w # gm_slen
            /\ gm_padding_mask =
                 [tag |-> "Tensor", t |-> [b \in 1..Len(gm_lengths) |-> [t \in 1..w |-> TRUE]]]
    /\ gm_caller = "none"
    /\ gm_ret = Pending

GmIdle ==
    /\ gm_slen = 1
    /\ gm_lengths = <<1>>
    /\ gm_causal = FALSE
    /\ gm_padding_mask = None
    /\ gm_caller = "none"
    /\ gm_ret = Pending

CallGetMasks ==
    /\ gm_ret = Pending
    /\ gm_caller' = "get_masks"
    /\ gm_ret' = get_masks(gm_slen, gm_lengths, gm_causal, gm_padding_mask)
    /\ UNCHANGED <<gm_slen, gm_lengths, gm_causal, gm_padding_mask>>
    /\ UNCHANGED <<pr_vars, ch_vars, st_vars>>

\* XLMModel.construct, from "check inputs" to "generate masks", called with
\* input ids of shape (bs, slen), explicit lengths and attention_mask:
\*   assert mindspore.Tensor.max(lengths) <= slen
\*   mask, attn_mask = get_masks(slen, lengths, self.causal, padding_mask=attention_mask)
\* The embeddings are computed after these lines.
SkipLengthsCheck(slen, lengths, causal, attention_mask) ==
    get_masks(slen, lengths, causal, attention_mask)

check_inputs(slen, lengths, causal, attention_mask) ==
    IF ~(SeqMax(lengths) <= slen)
    THEN [tag |-> "AssertionError", line |-> 550]
    ELSE get_masks(slen, lengths, causal, attention_mask)

CallConstructMasks ==
    /\ gm_ret = Pending
    /\ gm_caller' = "construct"
    /\ gm_ret' = check_inputs(gm_slen, gm_lengths, gm_causal, gm_padding_mask)
    /\ UNCHANGED <<gm_slen, gm_lengths, gm_causal, gm_padding_mask>>
    /\ UNCHANGED <<pr_vars, ch_vars, st_vars>>

(***************************************************************************)
(* MultiHeadAttention.prune_heads and its helpers.                         *)
(*                                                                         *)
(* A Dense layer is modelled by the rows and columns of the weight it was  *)
(* built with that it still holds, and the entries of the original bias:   *)
(* weight[i][j] = W0[rows[i + 1]][cols[j + 1]], bias[i] = b0[bias[i + 1]]. *)
(***************************************************************************)
Range(s) == {s[i] : i \in 1..Len(s)}

\* nn.Dense(in, out): weight of shape (out, in), bias of shape (out)
Dense(in, out) == [rows |-> arange(out), cols |-> arange(in), bias |-> arange(out)]

\* tensor.index_select(0, index) on a one-dimensional tensor / t[index]
index_select(t, index) == [k \in 1..Len(index) |-> t[index[k] + 1]]

\* heads = set(heads) - already_pruned_heads
RequestedAll(heads, already_pruned_heads) == Range(heads)

RequestedNew(heads, already_pruned_heads) == Range(heads) \ already_pruned_heads

\* head = head - sum(1 if h < head else 0 for h in already_pruned_heads)
Unshifted(head, already_pruned_heads) == head

Shifted(head, already_pruned_heads) ==
    head - Cardinality({h \in already_pruned_heads : h < head})

find_pruneable_heads_and_indices(heads, nheads, head_size, already_pruned_heads) ==
    LET hs == RequestedNew(heads, already_pruned_heads)
        zeroed == {Shifted(h, already_pruned_heads) : h \in hs}
        \* mask.view(-1): entry p of the flat mask is row p // head_size
        mask == [p \in 1..(nheads * head_size) |->
                    IF ((p - 1) \div head_size) \in zeroed THEN 0 ELSE 1]
        index == SelectSeq(arange(nheads * head_size), LAMBDA p : mask[p + 1] = 1)
    IN  [heads |-> hs, index |-> index]

prune_linear_layer(layer, index, d) ==
    IF d = 1
    THEN [rows |-> layer.rows, cols |-> index_select(layer.cols, index),
          bias |-> layer.bias]
    ELSE [rows |-> index_select(layer.rows, index), cols |-> layer.cols,
          bias |-> index_select(layer.bias, index)]

\* self.n_heads = self.n_heads - len(heads)
SameHeadCount(nheads, heads) == nheads

NewHeadCount(nheads, heads) == nheads - Cardinality(heads)

\* the lists of head indices a caller passes: the original head range
HeadLists == UNION {[1..n -> 0..(InitHeads - 1)] : n \in 0..MaxReq}

PrInit ==
    /\ n_heads = InitHeads
    /\ dim = InitHeads * HeadSize
    /\ pruned_heads = {}
    /\ q_lin = Dense(dim, dim)
    /\ k_lin = Dense(dim, dim)
    /\ v_lin = Dense(dim, dim)
    /\ out_lin = Dense(dim, dim)
    /\ pr_heads = <<>>
    /\ pr_already = {}
    /\ pr_status = "idle"

PrIdle == PrInit

prune_heads(heads) ==
    /\ pr_heads' = heads
    /\ pr_already' = pruned_heads
    /\ IF n_heads = 0
       THEN \* attention_head_size = self.dim // self.n_heads
            /\ pr_status' = "ZeroDivisionError"
            /\ UNCHANGED layer_vars
       ELSE LET attention_head_size == dim \div n_heads IN
            IF Len(heads) = 0
            THEN /\ pr_status' = "returned"
                 /\ UNCHANGED layer_vars
            ELSE LET f == find_pruneable_heads_and_indices(
                              heads, n_heads, attention_head_size, pruned_heads)
                 IN  /\ q_lin' = prune_linear_layer(q_lin, f.index, 0)
                     /\ k_lin' = prune_linear_layer(k_lin, f.index, 0)
                     /\ v_lin' = prune_linear_layer(v_lin, f.index, 0)
                     /\ out_lin' = prune_linear_layer(out_lin, f.index, 1)
                     /\ n_heads' = NewHeadCount(n_heads, f.heads)
                     /\ dim' = attention_head_size * n_heads'
                     /\ pruned_heads' = pruned_heads \cup f.heads
                     /\ pr_status' = "returned"

CallPruneHeads ==
    /\ \E heads \in HeadLists : prune_heads(heads)
    /\ UNCHANGED <<gm_vars, ch_vars, st_vars>>

(***************************************************************************)
(* apply_chunking_to_forward and TransformerFFN (eval mode: no dropout).   *)
(*                                                                         *)
(* A tensor is the sequence of its entries along the sequence axis         *)
(* (chunk_dim = seq_len_dim = 1); an entry stands for the vector of one    *)
(* position.                                                               *)
(***************************************************************************)
\* TransformerFFN.ff_chunk: lin1, act, lin2 act on each position alone
ff_chunk(input) == [i \in 1..Len(input) |-> <<"ff", input[i]>>]

\* num_chunks = input_tensors[0].shape[chunk_dim] // chunk_size
NumChunksWrong(shape, chunk_size) == chunk_size

NumChunks(shape, chunk_size) == shape \div chunk_size

\* input_tensors[0].shape[chunk_dim] % chunk_size != 0
ShorterThanChunk(shape, chunk_size) == shape < chunk_size

NotMultiple(shape, chunk_size) == shape % chunk_size # 0

\* Tensor.chunk(chunks, dim): pieces of ceil(len / chunks) entries, the last
\* one holding what is left
TensorChunk(t, chunks) ==
    LET size == (Len(t) + chunks - 1) \div chunks
        n == (Len(t) + size - 1) \div size
    IN  [k \in 1..n |-> SubSeq(t, (k - 1) * size + 1, Min(k * size, Len(t)))]

\* ops.cat(output_chunks, axis=chunk_dim)
RECURSIVE Cat(_)
Cat(chunks) == IF Len(chunks) = 0 THEN <<>> ELSE Head(chunks) \o Cat(Tail(chunks))

\* the result and the forward_fn calls of
\* apply_chunking_to_forward(forward_fn, chunk_size, chunk_dim, *input_tensors)
\* with forward_fn = ff_chunk (one parameter)
apply_chunking_to_forward(chunk_size, input_tensors) ==
    IF ~(Len(input_tensors) > 0)
    THEN [ret |-> [tag |-> "AssertionError", line |-> 174], calls |-> <<>>]
    ELSE IF 1 # Len(input_tensors)
    THEN [ret |-> [tag |-> "ValueError", line |-> 180], calls |-> <<>>]
    ELSE IF chunk_size > 0
    THEN LET tensor_shape == Len(input_tensors[1]) IN
         IF \E k \in 1..Len(input_tensors) : Len(input_tensors[k]) # tensor_shape
         THEN [ret |-> [tag |-> "ValueError", line |-> 189], calls |-> <<>>]
         ELSE IF NotMultiple(tensor_shape, chunk_size)
         THEN [ret |-> [tag |-> "ValueError", line |-> 195], calls |-> <<>>]
         ELSE LET num_chunks == NumChunks(tensor_shape, chunk_size)
                  input_tensors_chunks == TensorChunk(input_tensors[1], num_chunks)
                  output_chunks == [k \in 1..Len(input_tensors_chunks) |->
                                        ff_chunk(input_tensors_chunks[k])]
              IN  [ret |-> [tag |-> "ok", out |-> Cat(output_chunks)],
                   calls |-> input_tensors_chunks]
    ELSE [ret |-> [tag |-> "ok", out |-> ff_chunk(input_tensors[1])],
          calls |-> <<input_tensors[1]>>]

ChInit ==
    /\ \E n \in 1..MaxSeq : ch_input \in [1..n -> {0, 1}]
    /\ ch_chunk_size \in 0..MaxChunk
    /\ ch_calls = <<>>
    /\ ch_ret = Pending

ChIdle ==
    /\ ch_input = <<0>>
    /\ ch_chunk_size = 0
    /\ ch_calls = <<>>
    /\ ch_ret = Pending

\* TransformerFFN.construct(input)
CallFFN ==
    /\ ch_ret = Pending
    /\ LET r == apply_chunking_to_forward(ch_chunk_size, <<ch_input>>)
       IN  /\ ch_ret' = r.ret
           /\ ch_calls' = r.calls
    /\ UNCHANGED <<ch_input, ch_chunk_size>>
    /\ UNCHANGED <<gm_vars, pr_vars, st_vars>>

(***************************************************************************)
(* MultiHeadAttention.construct and XLMModel.construct, eval mode, one     *)
(* sequence in the batch (the batch axis is dropped), head_mask and        *)
(* attention_mask not supplied, lengths derived from the input ids.        *)
(*                                                                         *)
(* A hidden state is a term that records how it was computed:              *)
(*   [op |-> "emb", tok, pos, lang]   the normalised embedding sum         *)
(*   [op |-> "zero"]                  a position multiplied by mask 0      *)
(*   [op |-> "ln1", l, x, att]        layer l: x + attention, normalised;  *)
(*                                    att are the values with a non-zero   *)
(*                                    softmax weight, in key order         *)
(*   [op |-> "ln2", ff]               h + ff, normalised, where ff is the  *)
(*                                    feed-forward output <<"ff", h>>      *)
(* Two hidden states are the same term iff the same computation on the     *)
(* same inputs produced them.                                              *)
(***************************************************************************)
Zero == [op |-> "zero"]

\* np.finfo(dtype).min, the value masked_fill is given
FinfoMin == [op |-> "min"]

\* MultiHeadAttention.NEW_ID = itertools.count(): the i-th attention layer
\* of the first model built takes the id i - 1
LayerId(i) == i - 1

\* x[s:] of Python for a sequence x; s = -0 is 0
PySliceFrom(x, s) ==
    LET start == IF s < 0 THEN Max(0, Len(x) + s) ELSE Min(s, Len(x))
    IN  SubSeq(x, start + 1, Len(x))

\* Tensor.view(shape) of a two-dimensional tensor given by its rows:
\* the same entries in row-major order, in rows of shape[2] entries
View2(rows, shape) ==
    LET flat == Cat(rows)
    IN  [r \in 1..shape[1] |-> SubSeq(flat, (r - 1) * shape[2] + 1, r * shape[2])]

Numel2(rows) == Len(Cat(rows))

\* Tensor.masked_fill(mask, value): a new tensor, the receiver is unchanged
masked_fill(t, m, value) ==
    [i \in 1..Len(t) |-> [j \in 1..Len(t[i]) |-> IF m[i][j] THEN value ELSE t[i][j]]]

\* ops.softmax(scores, axis=-1) as the set of keys with a non-zero weight:
\* exp(min - max) is 0 unless every score of the row is the minimum
softmax(scores) ==
    [i \in 1..Len(scores) |-> [j \in 1..Len(scores[i]) |->
        \/ scores[i][j] # FinfoMin
        \/ \A jj \in 1..Len(scores[i]) : scores[i][jj] = FinfoMin]]

\* ops.cat([k_, k], axis=2)
CatReversed(cached, new) == new \o cached

CatLength(cached, new) == cached \o new

\* cache[self.layer_id] = (k, v)
CacheSet(c, lid, k, v) ==
    [c EXCEPT !.kv = (lid :> [k |-> k, v |-> v]) @@ c.kv]

NoAttn == [k |-> <<>>, v |-> <<>>, mask |-> <<>>, softmax_in |-> <<>>]

\* MultiHeadAttention.construct(input, mask, cache=cache) of the layer with
\* id lid, kv=None: the status, the cache afterwards, the values each query
\* position attended, and the locals k, v, mask and the softmax input
Attention(lid, input, msk, mask_dim, c) ==
    LET qlen == Len(input)
        klen == IF c = None THEN qlen ELSE c.slen + qlen
        mask_reshape == IF mask_dim = 3 THEN <<qlen, klen>> ELSE <<1, klen>>
        k_new == input
        v_new == input
        hit == c # None /\ lid \in DOMAIN c.kv
        k == IF hit THEN CatLength(c.kv[lid].k, k_new) ELSE k_new
        v == IF hit THEN CatLength(c.kv[lid].v, v_new) ELSE v_new
        c1 == IF c # None THEN CacheSet(c, lid, k, v) ELSE c
        scores == [i \in 1..qlen |-> [j \in 1..Len(k) |->
                        [op |-> "qk", q |-> i - 1, k |-> j - 1]]]
        mrows == IF mask_dim = 3 THEN msk ELSE <<msk>>
        raised(line) == [status |-> "RuntimeError", line |-> line, cache |-> c1,
                         att |-> <<>>,
                         attn |-> [k |-> k, v |-> v, mask |-> <<>>, softmax_in |-> <<>>]]
    IN  IF Numel2(mrows) # mask_reshape[1] * mask_reshape[2]
        THEN raised(367)   \* view
        ELSE IF mask_reshape[2] # Len(k)
        THEN raised(367)   \* expand_as
        ELSE
        LET viewed == View2([r \in 1..Len(mrows) |->
                                [j \in 1..Len(mrows[r]) |-> mrows[r][j] = FALSE]],
                            mask_reshape)
            expanded == [i \in 1..qlen |->
                            IF mask_reshape[1] = 1 THEN viewed[1] ELSE viewed[i]]
            \* line 368: the tensor masked_fill returns is not assigned
            filled == masked_fill(scores, expanded, FinfoMin)
            softmax_in == scores
            weights == softmax(softmax_in)
            context == [i \in 1..qlen |->
                            SelectSeq([j \in 1..Len(v) |-> [w |-> weights[i][j], v |-> v[j]]],
                                      LAMBDA e : e.w)]
        IN  [status |-> "ok", line |-> 385, cache |-> c1,
             att |-> [i \in 1..qlen |-> [j \in 1..Len(context[i]) |-> context[i][j].v]],
             attn |-> [k |-> k, v |-> v, mask |-> expanded, softmax_in |-> softmax_in]]

\* (input_ids != self.pad_index).sum(axis=1)
RECURSIVE CountValid(_)
CountValid(input_ids) ==
    IF Len(input_ids) = 0 THEN 0
    ELSE (IF Head(input_ids) # "pad" THEN 1 ELSE 0) + CountValid(Tail(input_ids))

\* tensor *= mask.unsqueeze(-1).to(tensor.dtype)
MulMask(t, m) == [i \in 1..Len(t) |-> IF m[i] THEN t[i] ELSE Zero]

\* XLMModel.construct up to the first layer (lines 536 to 598), called with
\* input_ids = the first n ids of the session and the cache c (or None)
Prologue(n, c) ==
    LET input_ids == SubSeq(ids, 1, n)
        slen == n
        lengths == <<CountValid(input_ids)>>
        gm == get_masks(slen, lengths, cfg_causal, None)
        position_ids == SubSeq(arange(MaxLen), 1, slen)
        lng == IF langs # None THEN SubSeq(langs.t, 1, slen) ELSE <<>>
        s == IF c # None THEN -(slen - c.slen) ELSE 0
        trim(x) == IF c # None THEN PySliceFrom(x, s) ELSE x
    IN  IF ~(SeqMax(lengths) <= slen) \/ gm.tag # "ok"
        THEN [status |-> "AssertionError", tensor |-> <<>>, mask |-> <<>>,
              attn_mask |-> <<>>]
        ELSE
        LET t_ids == trim(input_ids)
            t_pos == trim(position_ids)
            t_lng == trim(lng)
            t_mask == trim(gm.mask[1])
            t_attn_mask == trim(gm.attn_mask[1])
            emb == [i \in 1..Len(t_ids) |->
                        [op |-> "emb", tok |-> t_ids[i], pos |-> t_pos[i],
                         lang |-> IF langs # None THEN t_lng[i] ELSE "none"]]
        IN  [status |-> "ok", tensor |-> MulMask(emb, t_mask), mask |-> t_mask,
             attn_mask |-> t_attn_mask]

\* lines 608 to 621 of layer l: self attention, residual, layer_norm1
LayerAttention(l, t, am, c) ==
    LET r == Attention(LayerId(l), t, am, IF cfg_causal THEN 3 ELSE 2, c)
    IN  [status |-> r.status, cache |-> r.cache, attn |-> r.attn,
         tensor |-> IF r.status = "ok"
                    THEN [i \in 1..Len(t) |->
                            [op |-> "ln1", l |-> l, x |-> t[i], att |-> r.att[i]]]
                    ELSE t]

\* lines 631 to 633 of layer l: feed-forward, residual, layer_norm2, mask
LayerFFNUnmasked(l, t, m) ==
    LET f == apply_chunking_to_forward(chunk_size_feed_forward, <<t>>).ret
    IN  [status |-> f.tag,
         tensor |-> IF f.tag = "ok"
                    THEN [i \in 1..Len(t) |-> [op |-> "ln2", ff |-> f.out[i]]]
                    ELSE t]

LayerFFN(l, t, m) ==
    LET f == apply_chunking_to_forward(chunk_size_feed_forward, <<t>>).ret
    IN  [status |-> f.tag,
         tensor |-> IF f.tag = "ok"
                    THEN MulMask([i \in 1..Len(t) |->
                                    [op |-> "ln2", ff |-> f.out[i]]], m)
                    ELSE t]

\* cache["slen"] += tensor.size(1)
AdvanceTwice(c, t) == [c EXCEPT !.slen = @ + 2 * Len(t)]

Advance(c, t) == [c EXCEPT !.slen = @ + Len(t)]

\* the token ids of a session: valid tokens, then padding
Sessions == {[p \in 1..MaxLen |-> IF p <= k THEN "tok" ELSE "pad"] : k \in 0..MaxLen}

\* the language ids of a session, when given
LangIds == [p \in 1..MaxLen |-> IF p % 2 = 1 THEN "l0" ELSE "l1"]

\* the call in progress: its arguments, and the length counter and entries
\* the cache had at entry
NoCall == [n |-> 0, use_cache |-> FALSE, c |-> 0, kv |-> <<>>]

RunIdle ==
    /\ pc = "idle"
    /\ layer_i = 0
    /\ call = NoCall
    /\ tensor = <<>>
    /\ pad_mask = <<>>
    /\ att_mask = <<>>
    /\ attn = NoAttn
    /\ ret = Pending

StInit ==
    /\ cfg_causal \in BOOLEAN
    /\ n_layers \in 1..MaxLayers
    /\ chunk_size_feed_forward \in {0, 2}
    /\ ids \in Sessions
    /\ langs \in {None, [tag |-> "Tensor", t |-> LangIds]}
    /\ cache = None
    /\ hist = <<>>
    /\ RunIdle

StIdle ==
    /\ cfg_causal = FALSE
    /\ n_layers = 1
    /\ chunk_size_feed_forward = 0
    /\ ids = [p \in 1..MaxLen |-> "pad"]
    /\ langs = None
    /\ cache = None
    /\ hist = <<>>
    /\ RunIdle

Callable == pc \in {"idle", "done", "raised"}

\* the caller drops the last result and starts a decoding session with a
\* new cache {"slen": 0}
NewCache ==
    /\ Callable
    /\ cache' = [tag |-> "dict", slen |-> 0, kv |-> <<>>]
    /\ hist' = <<>>
    /\ pc' = "idle"
    /\ layer_i' = 0
    /\ call' = NoCall
    /\ tensor' = <<>>
    /\ pad_mask' = <<>>
    /\ att_mask' = <<>>
    /\ attn' = NoAttn
    /\ ret' = Pending
    /\ UNCHANGED cfg_vars
    /\ UNCHANGED <<gm_vars, pr_vars, ch_vars>>

Logged(ok) ==
    IF call.use_cache THEN Append(hist, [n |-> call.n, ok |-> ok]) ELSE hist

\* XLMModel.construct(input_ids[:, :n], cache=cache or None), lines 515 to 601.
\* With a cache the caller passes the full-length current input.
CallConstruct(n, use_cache) ==
    /\ Callable
    /\ use_cache => (cache # None /\ Len(hist) < MaxCalls /\ cache.slen <= n)
    /\ LET c == IF use_cache THEN cache ELSE None
           p == Prologue(n, c)
       IN  /\ call' = [n |-> n, use_cache |-> use_cache,
                       c |-> IF use_cache THEN cache.slen ELSE 0,
                       kv |-> IF use_cache THEN cache.kv ELSE <<>>]
           /\ tensor' = p.tensor
           /\ pad_mask' = p.mask
           /\ att_mask' = p.attn_mask
           /\ attn' = NoAttn
           /\ layer_i' = 1
           /\ IF p.status = "ok"
              THEN pc' = "attention" /\ ret' = Pending /\ hist' = hist
              ELSE /\ pc' = "raised"
                   /\ ret' = [tag |-> p.status]
                   /\ hist' = IF use_cache
                              THEN Append(hist, [n |-> n, ok |-> FALSE]) ELSE hist
    /\ UNCHANGED <<cfg_vars, cache>>
    /\ UNCHANGED <<gm_vars, pr_vars, ch_vars>>

\* the self attention of the current layer, lines 603 to 621
AttentionStep ==
    /\ pc = "attention"
    /\ LET r == LayerAttention(layer_i, tensor, att_mask,
                               IF call.use_cache THEN cache ELSE None)
       IN  /\ cache' = IF call.use_cache THEN r.cache ELSE cache
           /\ attn' = r.attn
           /\ tensor' = r.tensor
           /\ IF r.status = "ok"
              THEN pc' = "ffn" /\ UNCHANGED <<ret, hist>>
              ELSE pc' = "raised" /\ ret' = [tag |-> r.status] /\ hist' = Logged(FALSE)
    /\ UNCHANGED <<cfg_vars, layer_i, call, pad_mask, att_mask>>
    /\ UNCHANGED <<gm_vars, pr_vars, ch_vars>>

\* the feed-forward of the current layer, lines 630 to 633
FFNStep ==
    /\ pc = "ffn"
    /\ LET r == LayerFFN(layer_i, tensor, pad_mask)
       IN  /\ tensor' = r.tensor
           /\ IF r.status = "ok"
              THEN /\ pc' = IF layer_i < n_layers THEN "attention" ELSE "return"
                   /\ layer_i' = IF layer_i < n_layers THEN layer_i + 1 ELSE layer_i
                   /\ UNCHANGED <<ret, hist>>
              ELSE /\ pc' = "raised"
                   /\ ret' = [tag |-> r.status]
                   /\ hist' = Logged(FALSE)
                   /\ UNCHANGED layer_i
    /\ UNCHANGED <<cfg_vars, cache, call, pad_mask, att_mask, attn>>
    /\ UNCHANGED <<gm_vars, pr_vars, ch_vars>>

\* the end of construct, lines 635 to 645
Return ==
    /\ pc = "return"
    /\ cache' = IF call.use_cache THEN Advance(cache, tensor) ELSE cache
    /\ ret' = [tag |-> "ok", t |-> tensor]
    /\ hist' = Logged(TRUE)
    /\ pc' = "done"
    /\ UNCHANGED <<cfg_vars, layer_i, call, tensor, pad_mask, att_mask, attn>>
    /\ UNCHANGED <<gm_vars, pr_vars, ch_vars>>

\* XLMModel.construct on the first n ids without a cache, run to its end
RECURSIVE FullLayers(_, _, _, _)
FullLayers(l, t, m, am) ==
    IF l > n_layers THEN [tag |-> "ok", t |-> t]
    ELSE LET a == LayerAttention(l, t, am, None) IN
         IF a.status # "ok" THEN [tag |-> a.status]
         ELSE LET f == LayerFFN(l, a.tensor, m) IN
              IF f.status # "ok" THEN [tag |-> f.status]
              ELSE FullLayers(l + 1, f.tensor, m, am)

FullRun(n) ==
    LET p == Prologue(n, None)
    IN  IF p.status # "ok" THEN [tag |-> p.status]
        ELSE FullLayers(1, p.tensor, p.mask, p.attn_mask)

(***************************************************************************)
(* The specifications: one for each part of the program.                   *)
(***************************************************************************)
MasksInit == GmInit /\ PrIdle /\ ChIdle /\ StIdle
MasksNext == CallGetMasks \/ CallConstructMasks
SpecMasks == MasksInit /\ [][MasksNext]_vars

ChunkInit == GmIdle /\ PrIdle /\ ChInit /\ StIdle
ChunkNext == CallFFN
SpecChunk == ChunkInit /\ [][ChunkNext]_vars

PruneInit == GmIdle /\ PrInit /\ ChIdle /\ StIdle
PruneNext == CallPruneHeads
SpecPrune == PruneInit /\ [][PruneNext]_vars

StackInit == GmIdle /\ PrIdle /\ ChIdle /\ StInit
StackNext ==
    \/ NewCache
    \/ \E n \in 1..MaxLen : \E use_cache \in BOOLEAN : CallConstruct(n, use_cache)
    \/ AttentionStep
    \/ FFNStep
    \/ Return
SpecStack == StackInit /\ [][StackNext]_vars

(***************************************************************************)
(* Claims about get_masks (specification SpecMasks).                       *)
(***************************************************************************)
GmReturned == gm_ret.tag = "ok"
GmBatch == 1..Len(gm_lengths)
GmPos == 0..(gm_slen - 1)

\* C2 as the specification states it: in causal mode
\* attn_mask[b][i][j] = (j <= i) AND valid(b, j); in non-causal mode the
\* attention mask is the padding mask.
C2_CausalAndPadding ==
    GmReturned =>
        IF gm_causal
        THEN \A b \in GmBatch : \A i \in GmPos : \A j \in GmPos :
                gm_ret.attn_mask[b][i + 1][j + 1]
                    = ((j <= i) /\ gm_ret.mask[b][j + 1])
        ELSE gm_ret.attn_mask = gm_ret.mask

\* C2 amended: in causal mode the attention mask is the lower triangle
\* alone, attn_mask[b][i][j] = (j <= i) for every b, whatever the padding
\* mask holds; in non-causal mode it is the padding mask itself.
C2_CausalTriangular ==
    GmReturned =>
        IF gm_causal
        THEN /\ Len(gm_ret.attn_mask) = Len(gm_lengths)
             /\ \A b \in GmBatch :
                    /\ Len(gm_ret.attn_mask[b]) = gm_slen
                    /\ \A i \in GmPos :
                        /\ Len(gm_ret.attn_mask[b][i + 1]) = gm_slen
                        /\ \A j \in GmPos :
                            gm_ret.attn_mask[b][i + 1][j + 1] = (j <= i)
        ELSE gm_ret.attn_mask = gm_ret.mask

\* a causal call returned although some position j <= i is padding
C2_Witness ==
    /\ GmReturned
    /\ gm_causal
    /\ gm_slen >= 2
    /\ \E b \in GmBatch : \E i \in GmPos : \E j \in GmPos :
            j <= i /\ ~gm_ret.mask[b][j + 1] /\ gm_ret.attn_mask[b][i + 1][j + 1]

\* C3: without a supplied padding mask and with every lengths[b] <= slen,
\* get_masks returns a padding mask of shape (batch, slen) with
\* mask[b][t] true iff t < lengths[b]; a supplied padding mask is returned
\* verbatim.
C3_PaddingMask ==
    /\ (gm_ret # Pending /\ gm_padding_mask = None
            /\ \A b \in GmBatch : gm_lengths[b] <= gm_slen)
        => /\ GmReturned
           /\ Len(gm_ret.mask) = Len(gm_lengths)
           /\ \A b \in GmBatch :
                /\ Len(gm_ret.mask[b]) = gm_slen
                /\ \A t \in GmPos : gm_ret.mask[b][t + 1] <=> (t < gm_lengths[b])
    /\ (GmReturned /\ gm_padding_mask # None)
        => gm_ret.mask = gm_padding_mask.t

\* a call without padding mask returned a mask with a valid and a padded
\* position in one row and a row that is valid up to its last position
C3_Witness ==
    /\ GmReturned
    /\ gm_padding_mask = None
    /\ \E b \in GmBatch : 0 < gm_lengths[b] /\ gm_lengths[b] < gm_slen
    /\ \E b \in GmBatch : gm_lengths[b] = gm_slen

(***************************************************************************)
(* Claims about prune_heads (specification SpecPrune).                     *)
(***************************************************************************)
\* the rows of the original weight that belong to heads not in pruned,
\* in their original order
KeptOriginal(pruned) ==
    SelectSeq(arange(InitHeads * HeadSize), LAMBDA r : (r \div HeadSize) \notin pruned)

\* C7: after any sequence of prune_heads calls with indices of the original
\* head range, the rows kept in q_lin, k_lin, v_lin and the columns kept in
\* out_lin are exactly the head_size-wide blocks of the original heads that
\* are not in pruned_heads, in original order, and pruned_heads holds the
\* original (unshifted) indices that were requested.
C7_KeptBlocks ==
    /\ q_lin.rows = KeptOriginal(pruned_heads)
    /\ k_lin.rows = KeptOriginal(pruned_heads)
    /\ v_lin.rows = KeptOriginal(pruned_heads)
    /\ out_lin.cols = KeptOriginal(pruned_heads)
    /\ q_lin.bias = q_lin.rows /\ k_lin.bias = k_lin.rows /\ v_lin.bias = v_lin.rows
    /\ q_lin.cols = arange(InitHeads * HeadSize)
    /\ out_lin.rows = arange(InitHeads * HeadSize)
    /\ pruned_heads \subseteq 0..(InitHeads - 1)
    /\ (pr_status = "returned" /\ pr_heads # <<>>)
        => pruned_heads = pr_already \cup Range(pr_heads)

\* a call pruned a head that lies above an already pruned one, so its
\* index was shifted before slicing
C7_Witness ==
    /\ pr_status = "returned"
    /\ \E h \in Range(pr_heads) \ pr_already : \E g \in pr_already : g < h
    /\ \E h \in 0..(InitHeads - 1) : h \notin pruned_heads /\ h > 0

\* C8: a prune_heads call that requests k distinct head indices none of
\* which is already pruned lowers n_heads by exactly k; over any sequence
\* of calls n_heads never increases and pruned_heads only grows.
C8_HeadCount ==
    [][/\ n_heads' <= n_heads
       /\ pruned_heads \subseteq pruned_heads'
       /\ (/\ Range(pr_heads') \cap pruned_heads = {}
           /\ Cardinality(Range(pr_heads')) = Len(pr_heads'))
            => n_heads' = n_heads - Len(pr_heads')]_pr_vars

\* a call on an already pruned layer removed two further heads
C8_Witness ==
    /\ pr_status = "returned"
    /\ Len(pr_heads) = 2
    /\ Cardinality(Range(pr_heads)) = 2
    /\ Range(pr_heads) \cap pr_already = {}
    /\ pr_already # {}
    /\ n_heads = InitHeads - Cardinality(pr_already) - 2

\* C9: prune_heads with head indices that are all in pruned_heads already
\* (a repeated call with the same list included), or with the empty list,
\* leaves n_heads, dim, pruned_heads and the projections as they were.
C9_Idempotent ==
    [][Range(pr_heads') \subseteq pruned_heads => UNCHANGED layer_vars]_pr_vars

\* a call with a non-empty list of already pruned heads returned
C9_Witness ==
    /\ pr_status = "returned"
    /\ pr_heads # <<>>
    /\ Range(pr_heads) \subseteq pr_already
    /\ n_heads = InitHeads - Cardinality(pr_already)

(***************************************************************************)
(* Claims about apply_chunking_to_forward (specification SpecChunk).       *)
(***************************************************************************)
ChDivides == ch_chunk_size > 0 /\ Len(ch_input) % ch_chunk_size = 0

\* C10: for a positive chunk size that evenly divides the sequence length
\* and a forward function that acts on each position alone, the input is
\* split into length / chunk_size contiguous chunks of chunk_size positions,
\* the function is applied to each chunk once, in order, and the
\* concatenated result equals the function applied to the whole input, which
\* is what chunk size 0 computes.
C10_ChunkedEqualsWhole ==
    /\ (ch_ret # Pending /\ ChDivides)
        => /\ ch_ret.tag = "ok"
           /\ Len(ch_calls) * ch_chunk_size = Len(ch_input)
           /\ \A k \in 1..Len(ch_calls) :
                /\ Len(ch_calls[k]) = ch_chunk_size
                /\ \A i \in 1..ch_chunk_size :
                    ch_calls[k][i] = ch_input[(k - 1) * ch_chunk_size + i]
           /\ Len(ch_ret.out) = Len(ch_input)
           /\ \A p \in 1..Len(ch_input) : ch_ret.out[p] = <<"ff", ch_input[p]>>
    /\ (ch_ret # Pending /\ ch_chunk_size = 0)
        => /\ ch_ret.tag = "ok"
           /\ ch_calls = <<ch_input>>
           /\ Len(ch_ret.out) = Len(ch_input)
           /\ \A p \in 1..Len(ch_input) : ch_ret.out[p] = <<"ff", ch_input[p]>>

\* a call with several chunks of several positions, holding different
\* entries, returned
C10_Witness ==
    /\ ch_ret.tag = "ok"
    /\ ChDivides
    /\ ch_chunk_size >= 2
    /\ Len(ch_calls) >= 2
    /\ ch_calls[1] # ch_calls[2]

\* C16: after any sequence of prune_heads calls, also one that prunes every
\* head, n_heads + |pruned_heads| is the initial head count, dim is n_heads
\* times the initial per-head size, and the per-head size dim // n_heads that
\* the next prune_heads or construct call computes first is defined and
\* equal to the initial per-head size: no call raises on that division.
C16_HeadSizeDefined ==
    /\ n_heads + Cardinality(pruned_heads) = InitHeads
    /\ dim = n_heads * HeadSize
    /\ n_heads # 0
    /\ dim \div n_heads = HeadSize
    /\ pr_status # "ZeroDivisionError"

\* C12: whenever a valid length exceeds slen, get_masks raises instead of
\* returning masks, whether causal or not and whether a padding mask is
\* supplied or not, and XLMModel.construct raises at its input check, before
\* any embedding is computed.
C12_LengthsExceedRaise ==
    (gm_ret # Pending /\ SeqMax(gm_lengths) > gm_slen)
        => /\ gm_ret.tag = "AssertionError"
           /\ gm_caller = "construct" => gm_ret.line = 550

\* C12, the part that holds: XLMModel.construct raises at its input check
\* whenever a valid length exceeds slen, and get_masks raises whenever it is
\* given no padding mask.
C12_ConstructRaises ==
    (gm_ret # Pending /\ SeqMax(gm_lengths) > gm_slen
        /\ (gm_caller = "construct" \/ gm_padding_mask = None))
        => /\ gm_ret.tag = "AssertionError"
           /\ gm_ret.line = IF gm_caller = "construct" THEN 550 ELSE 80

\* construct raised on a length above slen although a padding mask of the
\* right shape was supplied
C12_Witness ==
    /\ gm_caller = "construct"
    /\ gm_padding_mask # None
    /\ Shape2(gm_padding_mask.t) = <<Len(gm_lengths), gm_slen>>
    /\ SeqMax(gm_lengths) > gm_slen
    /\ gm_ret.tag = "AssertionError"

\* C11: whenever the chunk size is positive and does not evenly divide the
\* sequence length, apply_chunking_to_forward raises before the forward
\* function is applied to any chunk: no output, padded, truncated or
\* partial, is returned.
C11_NonDivisibleRaises ==
    (ch_ret # Pending /\ ch_chunk_size > 0 /\ Len(ch_input) % ch_chunk_size # 0)
        => /\ ch_ret.tag = "ValueError"
           /\ ch_ret.line = 195
           /\ ch_calls = <<>>

\* a call with a chunk size smaller than the input, which it does not
\* divide, raised
C11_Witness ==
    /\ ch_ret.tag = "ValueError"
    /\ ch_chunk_size > 1
    /\ Len(ch_input) > ch_chunk_size
    /\ Len(ch_input) % ch_chunk_size # 0

(***************************************************************************)
(* Claims about the attention layer and the stack (specification           *)
(* SpecStack).                                                             *)
(***************************************************************************)
\* the last MultiHeadAttention.construct reached its softmax
AttnSoftmaxed == attn.softmax_in # <<>>

\* C1: for every query position and key position that the mask marks as
\* masked (mask value 0), the score that enters the softmax is the numeric
\* minimum of the score dtype; at unmasked positions it is the scaled dot
\* product unchanged.
C1_MaskedScoresAreMin ==
    AttnSoftmaxed =>
        \A i \in 1..Len(attn.softmax_in) : \A j \in 1..Len(attn.softmax_in[i]) :
            attn.softmax_in[i][j] =
                IF attn.mask[i][j] THEN FinfoMin
                ELSE [op |-> "qk", q |-> i - 1, k |-> j - 1]

\* C4: for a self-attention call with a cache, the keys and values used are
\* the cached ones of this layer's id followed by the new ones (the new ones
\* alone when the id has no entry); that pair is written back under the id,
\* so its cached length grows by the query length, and the entries of every
\* other layer id are unchanged; the layer ids of the stack are distinct.
C4_CacheConcat ==
    [][(pc = "attention" /\ call.use_cache) =>
        LET lid == LayerId(layer_i)
            hit == lid \in DOMAIN cache.kv
            old_k == IF hit THEN cache.kv[lid].k ELSE <<>>
            old_v == IF hit THEN cache.kv[lid].v ELSE <<>>
        IN  /\ attn'.k = old_k \o tensor
            /\ attn'.v = old_v \o tensor
            /\ DOMAIN cache'.kv = DOMAIN cache.kv \cup {lid}
            /\ cache'.kv[lid] = [k |-> attn'.k, v |-> attn'.v]
            /\ Len(cache'.kv[lid].k) = Len(old_k) + Len(tensor)
            /\ \A o \in DOMAIN cache.kv \ {lid} : cache'.kv[o] = cache.kv[o]
            /\ cache'.slen = cache.slen
            /\ \A a \in 1..n_layers : \A b \in 1..n_layers :
                    a # b => LayerId(a) # LayerId(b)]_st_vars

\* the second layer of a stack extended its own cache entry by the new
\* positions, next to the entry of the first layer
C4_Witness ==
    /\ pc = "ffn"
    /\ call.use_cache
    /\ layer_i = 2
    /\ call.c > 0
    /\ Len(attn.k) = call.c + Len(tensor)
    /\ DOMAIN cache.kv = {LayerId(1), LayerId(2)}
    /\ cache.kv[LayerId(2)].k = attn.k

\* the pass has the trimmed inputs in hand
InPass == pc \in {"attention", "ffn", "return", "done"}

\* C5: called with a cache whose length counter is c and input ids of length
\* n, 0 <= c <= n, construct trims ids, position ids, language ids and masks
\* to the last n - c positions, so exactly positions c .. n-1 are computed,
\* and after the pass the counter equals n.
C5_TrimAndAdvance ==
    (InPass /\ call.use_cache /\ 0 <= call.c /\ call.c <= call.n) =>
        /\ Len(tensor) = call.n - call.c
        /\ Len(pad_mask) = call.n - call.c
        /\ Len(att_mask) = call.n - call.c
        /\ (pc = "attention" /\ layer_i = 1) =>
                \A i \in 1..Len(tensor) :
                    tensor[i] # Zero =>
                        /\ tensor[i].pos = call.c + i - 1
                        /\ tensor[i].tok = ids[call.c + i]
                        /\ langs # None => tensor[i].lang = langs.t[call.c + i]
        /\ pc = "done" => cache.slen = call.n

\* C6: the final hidden state at positions m .. n-1 of one pass over the
\* first n positions without a cache equals that of a pass over the first m
\* positions with a fresh cache followed by a pass over the n positions
\* with that cache, 0 < m < n.
C6_IncrementalConsistency ==
    (/\ pc = "done"
     /\ call.use_cache
     /\ Len(hist) = 2
     /\ hist[1].ok /\ hist[2].ok
     /\ 0 < hist[1].n /\ hist[1].n < hist[2].n
     /\ FullRun(hist[2].n).tag = "ok")
        => ret.t = SubSeq(FullRun(hist[2].n).t, hist[1].n + 1, hist[2].n)

\* the hidden state is the input of a layer or the result of the pass
HandedOn == pc \in {"attention", "return", "done"}

\* the position in the input ids of the i-th entry of the hidden state
AbsPos(i) == call.n - Len(tensor) + i

\* C13: the hidden states are multiplied by the padding mask after the
\* embedding and at the end of every layer (attention, residual and first
\* normalisation, then feed-forward, residual and second normalisation), so
\* the hidden state handed to each layer and the final hidden state are zero
\* at every padding position, whatever the number of layers.
C13_PaddingZero ==
    HandedOn =>
        /\ Len(pad_mask) = Len(tensor)
        /\ \A i \in 1..Len(tensor) :
            /\ ~pad_mask[i] => tensor[i] = Zero
            /\ ids[AbsPos(i)] = "pad" => tensor[i] = Zero
            /\ (tensor[i] # Zero /\ pc = "attention" /\ layer_i = 1)
                    => tensor[i].op = "emb"
            /\ (tensor[i] # Zero /\ ~(pc = "attention" /\ layer_i = 1))
                    => /\ tensor[i].op = "ln2"
                       /\ tensor[i].ff[1] = "ff"
                       /\ tensor[i].ff[2].op = "ln1"
                       /\ tensor[i].ff[2].l =
                            IF pc = "attention" THEN layer_i - 1 ELSE n_layers

\* a pass through two layers ended with a hidden state that is zero at a
\* padding position and the output of the second layer at a valid one
C13_Witness ==
    /\ pc = "done"
    /\ n_layers = 2
    /\ \E i \in 1..Len(tensor) :
        /\ ids[AbsPos(i)] = "pad"
        /\ ~pad_mask[i]
        /\ tensor[i] = Zero
    /\ \E j \in 1..Len(tensor) :
        /\ tensor[j] # Zero
        /\ tensor[j].ff[2].l = 2

\* C14: a forward pass has no partial-failure effect: whenever construct
\* raises while a cache is supplied, in whichever layer or sublayer, the
\* key/value entries of the cache and its length counter are those it had
\* before the call.
C14_NoPartialFailure ==
    (pc = "raised" /\ call.use_cache) =>
        /\ cache.kv = call.kv
        /\ cache.slen = call.c

\* every call made with the cache so far completed
AllCompleted == \A h \in 1..Len(hist) : hist[h].ok

\* C15: after each completed construct call with a cache, over calls whose
\* input lengths do not shrink, every attention layer of the stack has a
\* cache entry whose key length and value length equal the length counter
\* of the cache, and the counter never decreases; so the key length
\* klen = counter + query length a layer computes at the next call is the
\* length of its concatenated keys.
C15_CacheLengths ==
    /\ (pc = "done" /\ call.use_cache) =>
            /\ cache.slen >= call.c
            /\ \A l \in 1..n_layers :
                /\ LayerId(l) \in DOMAIN cache.kv
                /\ Len(cache.kv[LayerId(l)].k) = cache.slen
                /\ Len(cache.kv[LayerId(l)].v) = cache.slen
    /\ (pc \in {"attention", "ffn", "return", "raised"} /\ call.use_cache)
            => cache.slen = call.c
    /\ (pc = "attention" /\ call.use_cache /\ AllCompleted) =>
            LET lid == LayerId(layer_i)
                hit == lid \in DOMAIN cache.kv
                qlen == Len(tensor)
                klen == cache.slen + qlen
                k == IF hit THEN CatLength(cache.kv[lid].k, tensor) ELSE tensor
                v == IF hit THEN CatLength(cache.kv[lid].v, tensor) ELSE tensor
            IN  Len(k) = klen /\ Len(v) = klen

\* a second call with a longer input completed on a two-layer stack: both
\* layers hold entries as long as the counter, which grew
C15_Witness ==
    /\ pc = "done"
    /\ call.use_cache
    /\ n_layers = 2
    /\ Len(hist) = 2
    /\ hist[1].ok /\ hist[2].ok
    /\ 0 < call.c
    /\ call.c < cache.slen
    /\ \A l \in 1..n_layers : Len(cache.kv[LayerId(l)].k) = cache.slen

=============================================================================
